---- MODULE Spec2Model ----
(***************************************************************************)
(* esbuild-node-tsc (src/index.ts): resolution of the build metadata from  *)
(* the user configuration and the TypeScript configuration, and the two    *)
(* build modes (one-shot and watch) that run the resulting plan.           *)
(*                                                                         *)
(* JavaScript values are modelled as follows.  An optional value (a field  *)
(* that may be undefined) is a set with at most one element: {} is         *)
(* undefined, {v} is the value v.  Strings are strings, the empty string   *)
(* included; arrays are sequences; booleans are booleans.  `a || b` is     *)
(* modelled by truthiness, one operator per type of a.                     *)
(***************************************************************************)
EXTENDS Integers, Sequences, FiniteSets, TLC

(***************************************************************************)
(* Bounds of the model.                                                    *)
(***************************************************************************)
MaxPatterns == 2
MaxEntryPoints == 1
MaxFileNames == 2
MaxEvents == 2
MaxRuns == 2

(***************************************************************************)
(* Optional values.                                                        *)
(***************************************************************************)
Undefined == {}

Some(v) == {v}

Val(o) == CHOOSE v \in o : TRUE

Opt(S) == {Undefined} \cup {Some(v) : v \in S}

\* o?.field
Chain(o, field) == IF o = Undefined THEN Undefined ELSE Val(o)[field]

\* Truthiness of an optional string, boolean and array.
TruthyStr(o) == o # Undefined /\ Val(o) # ""

TruthyBool(o) == o # Undefined /\ Val(o) = TRUE

TruthyArr(o) == o # Undefined

SeqsUpTo(S, n) == UNION {[1..k -> S] : k \in 0..n}

(***************************************************************************)
(* Files of the project, as paths relative to the working directory, and   *)
(* what path parsing gives for each.                                       *)
(***************************************************************************)
Files == {"src/a.ts", "src/b.ts", "src/w.css", "src/x.json", "conf.json", "dist/x.json"}

DirOf(f) ==
  CASE f = "conf.json" -> <<>>
    [] f = "dist/x.json" -> <<"dist">>
    [] OTHER -> <<"src">>

NameOf(f) ==
  CASE f = "src/a.ts" -> "a"
    [] f = "src/b.ts" -> "b"
    [] f = "src/w.css" -> "w"
    [] f = "conf.json" -> "conf"
    [] OTHER -> "x"

ExtOf(f) ==
  CASE f \in {"src/a.ts", "src/b.ts"} -> "ts"
    [] f = "src/w.css" -> "css"
    [] OTHER -> "json"

\* The working directory of the process.
Cwd == "/proj"

\* The absolute directory names of the model: ts.parseJsonConfigFileContent
\* resolves the outDir of the configuration file against the working directory.
IsAbsolute(d) == d \in {"/proj/build", "/proj/dist"}

\* A directory name as a path from the working directory: "" is the working
\* directory itself.
DirPath(d) ==
  CASE d = "" -> <<>>
    [] d = "/proj/build" -> <<"build">>
    [] d = "/proj/dist" -> <<"dist">>
    [] OTHER -> <<d>>

IsPrefix(p, s) == Len(p) <= Len(s) /\ SubSeq(s, 1, Len(p)) = p

(***************************************************************************)
(* Glob patterns.  The strings are the ones of the configuration; a        *)
(* pattern is matched against a path relative to the directory it is       *)
(* resolved from.                                                          *)
(***************************************************************************)
MatchAll == "**"

ExcludeCompilable == "!**/*.{ts,js,tsx,jsx}"

CompilableExts == {"ts", "js", "tsx", "jsx"}

UserPatterns == {"**", "*.json"}

IsNegated(p) == p = ExcludeCompilable

\* Does the (positive part of the) pattern match the file whose directory,
\* relative to the pattern's base, is rel?
GlobMatch(p, rel, f) ==
  CASE p = "**" -> TRUE
    [] p = "*.json" -> rel = <<>> /\ ExtOf(f) = "json"
    [] p = ExcludeCompilable -> ExtOf(f) \in CompilableExts
    [] OTHER -> FALSE

\* patterns resolved from directory base: f is under base, some positive
\* pattern matches it and no negated pattern does.
MatchesFrom(patterns, base, f) ==
  /\ IsPrefix(base, DirOf(f))
  /\ LET rel == SubSeq(DirOf(f), Len(base) + 1, Len(DirOf(f))) IN
       /\ \E i \in 1..Len(patterns) :
            ~IsNegated(patterns[i]) /\ GlobMatch(patterns[i], rel, f)
       /\ \A i \in 1..Len(patterns) :
            IsNegated(patterns[i]) => ~GlobMatch(patterns[i], rel, f)

(***************************************************************************)
(* esBuildSourceMapOptions.  The three flags are optional booleans; the    *)
(* result is false, true, "inline" or undefined, written as a string.      *)
(***************************************************************************)
JsBool(o) == IF o = Undefined THEN "undefined" ELSE IF Val(o) THEN "true" ELSE "false"

\* a first test on inlineSources alone
esBuildSourceMapOptions_inlineSourcesAlone(tsConfig) ==
  LET sourceMap == tsConfig.options.sourceMap
      inlineSources == tsConfig.options.inlineSources
      inlineSourceMap == tsConfig.options.inlineSourceMap
  IN  IF TruthyBool(inlineSources)
        THEN "false"
      ELSE IF TruthyBool(sourceMap) /\ TruthyBool(inlineSourceMap)
        THEN "false"
      ELSE IF TruthyBool(inlineSourceMap)
        THEN "inline"
      ELSE JsBool(sourceMap)

esBuildSourceMapOptions_inlineFirst(tsConfig) ==
  LET sourceMap == tsConfig.options.sourceMap
      inlineSources == tsConfig.options.inlineSources
      inlineSourceMap == tsConfig.options.inlineSourceMap
  IN  IF TruthyBool(inlineSources) /\ ~TruthyBool(inlineSourceMap) /\ ~TruthyBool(sourceMap)
        THEN "false"
      ELSE IF TruthyBool(inlineSourceMap)
        THEN "inline"
      ELSE IF TruthyBool(sourceMap) /\ TruthyBool(inlineSourceMap)
        THEN "false"
      ELSE JsBool(sourceMap)

esBuildSourceMapOptions(tsConfig) ==
  LET sourceMap == tsConfig.options.sourceMap
      inlineSources == tsConfig.options.inlineSources
      inlineSourceMap == tsConfig.options.inlineSourceMap
  IN  IF TruthyBool(inlineSources) /\ ~TruthyBool(inlineSourceMap) /\ ~TruthyBool(sourceMap)
        THEN "false"
      ELSE IF TruthyBool(sourceMap) /\ TruthyBool(inlineSourceMap)
        THEN "false"
      ELSE IF TruthyBool(inlineSourceMap)
        THEN "inline"
      ELSE JsBool(sourceMap)

(***************************************************************************)
(* getTSConfig: the configuration file is looked up by name; the project   *)
(* holds at most one, project = {} when it holds none.                     *)
(***************************************************************************)
DefaultTsConfigFile == "tsconfig.json"

\* a getTSConfig call that drops its argument
RequestedTsConfigFile_default(userConfig) == DefaultTsConfigFile

\* the default parameter applies to undefined only
RequestedTsConfigFile(userConfig) ==
  IF userConfig.tsConfigFile = Undefined THEN DefaultTsConfigFile
  ELSE Val(userConfig.tsConfigFile)

\* ts.findConfigFile
findConfigFile(project, name) ==
  IF project # Undefined /\ Val(project).tsConfigFile = name /\ name # ""
    THEN Some(name) ELSE Undefined

\* getTSConfig throws when no file is found
getTSConfigThrows(project, userConfig) ==
  findConfigFile(project, RequestedTsConfigFile(userConfig)) = Undefined

getTSConfig(project, userConfig) == Val(project)

(***************************************************************************)
(* getBuildMetadata.                                                       *)
(***************************************************************************)
outDirOf_compilerFirst(userConfig, tsConfig) ==
  IF TruthyStr(tsConfig.options.outDir) THEN Val(tsConfig.options.outDir)
  ELSE IF TruthyStr(userConfig.outDir) THEN Val(userConfig.outDir)
  ELSE "dist"

outDirOf(userConfig, tsConfig) ==
  IF TruthyStr(userConfig.outDir) THEN Val(userConfig.outDir)
  ELSE IF TruthyStr(tsConfig.options.outDir) THEN Val(tsConfig.options.outDir)
  ELSE "dist"

esbuildEntryPointsOf(userConfig) ==
  IF TruthyArr(Chain(userConfig.esbuild, "entryPoints"))
    THEN Val(Chain(userConfig.esbuild, "entryPoints")) ELSE <<>>

srcFilesOf_userFirst(userConfig, tsConfig) ==
  esbuildEntryPointsOf(userConfig) \o tsConfig.fileNames

srcFilesOf(userConfig, tsConfig) ==
  tsConfig.fileNames \o esbuildEntryPointsOf(userConfig)

rawTargetOf(tsConfig) == Chain(Chain(tsConfig.raw, "compilerOptions"), "target")

targetOf_compilerFirst(userConfig, tsConfig) ==
  IF TruthyStr(rawTargetOf(tsConfig)) THEN Val(rawTargetOf(tsConfig))
  ELSE IF TruthyStr(Chain(userConfig.esbuild, "target"))
    THEN Val(Chain(userConfig.esbuild, "target"))
  ELSE "es6"

targetOf(userConfig, tsConfig) ==
  IF TruthyStr(Chain(userConfig.esbuild, "target"))
    THEN Val(Chain(userConfig.esbuild, "target"))
  ELSE IF TruthyStr(rawTargetOf(tsConfig)) THEN Val(rawTargetOf(tsConfig))
  ELSE "es6"

minifyOf(userConfig) ==
  IF TruthyBool(Chain(userConfig.esbuild, "minify")) THEN TRUE ELSE FALSE

pluginsOf(userConfig) ==
  IF TruthyArr(Chain(userConfig.esbuild, "plugins"))
    THEN Val(Chain(userConfig.esbuild, "plugins")) ELSE <<>>

assetPatternsOf(userConfig) ==
  IF TruthyArr(Chain(userConfig.assets, "filePatterns"))
    THEN Val(Chain(userConfig.assets, "filePatterns")) ELSE <<MatchAll>>

baseDirOf(userConfig) ==
  IF TruthyStr(Chain(userConfig.assets, "baseDir"))
    THEN Val(Chain(userConfig.assets, "baseDir")) ELSE "src"

patternsOf_exclusionFirst(userConfig) ==
  <<ExcludeCompilable>> \o assetPatternsOf(userConfig)

patternsOf(userConfig) ==
  assetPatternsOf(userConfig) \o <<ExcludeCompilable>>

getBuildMetadata(userConfig, project) ==
  LET tsConfig == getTSConfig(project, userConfig)
      outDir == outDirOf(userConfig, tsConfig)
  IN  [outDir |-> outDir,
       esbuildOptions |->
         [outdir |-> outDir,
          entryPoints |-> srcFilesOf(userConfig, tsConfig),
          sourcemap |-> esBuildSourceMapOptions(tsConfig),
          target |-> targetOf(userConfig, tsConfig),
          minify |-> minifyOf(userConfig),
          plugins |-> pluginsOf(userConfig),
          tsconfig |-> Val(findConfigFile(project, RequestedTsConfigFile(userConfig)))],
       assetsOptions |->
         [baseDir |-> baseDirOf(userConfig),
          outDir |-> outDir,
          patterns |-> patternsOf(userConfig)]]

(***************************************************************************)
(* Inputs.  A user configuration is what readUserConfig resolves to; a     *)
(* project is what the TypeScript configuration lookup finds.              *)
(***************************************************************************)
NoEsbuild == Undefined

NoAssets == Undefined

MkUserConfig(outDir, tsConfigFile, watch, esbuild, assets) ==
  [outDir |-> outDir, tsConfigFile |-> tsConfigFile, watch |-> watch,
   esbuild |-> esbuild, assets |-> assets]

MkEsbuild(entryPoints, target, minify, plugins) ==
  Some([entryPoints |-> entryPoints, target |-> target, minify |-> minify,
        plugins |-> plugins])

MkAssets(baseDir, filePatterns) ==
  Some([baseDir |-> baseDir, filePatterns |-> filePatterns])

MkProject(file, outDir, sourceMap, inlineSourceMap, inlineSources, fileNames, raw) ==
  Some([tsConfigFile |-> file,
        options |-> [outDir |-> outDir, sourceMap |-> sourceMap,
                     inlineSourceMap |-> inlineSourceMap,
                     inlineSources |-> inlineSources],
        fileNames |-> fileNames,
        raw |-> raw])

RawWithTarget(t) == Some([compilerOptions |-> Some([target |-> t])])

RawConfigs ==
  {Undefined, Some([compilerOptions |-> Undefined])}
    \cup {RawWithTarget(t) : t \in Opt({"", "ES5"})}

\* Inputs that vary the scalar options, with the lists left out.
OptionInputs ==
  {<<MkUserConfig(uo, Undefined, Undefined, MkEsbuild(Undefined, ut, um, up), NoAssets),
     MkProject(DefaultTsConfigFile, to, sm, ism, is, <<"src/a.ts">>, raw)>> :
     uo \in Opt({"", "out"}), ut \in Opt({"", "es2020"}), um \in Opt(BOOLEAN),
     up \in Opt({<<>>, <<"plugin">>}), to \in Opt({"/proj/build"}),
     sm \in Opt(BOOLEAN), ism \in Opt(BOOLEAN), is \in Opt(BOOLEAN),
     raw \in {Undefined, RawWithTarget(Some("")), RawWithTarget(Some("ES5"))}}

\* Inputs that vary the lists and the asset options.
ListInputs ==
  {<<MkUserConfig(Undefined, Undefined, Undefined, es, as),
     MkProject(DefaultTsConfigFile, Undefined, Undefined, Undefined, Undefined, fn, raw)>> :
     es \in {NoEsbuild} \cup
            {MkEsbuild(ep, Undefined, Undefined, Undefined) :
               ep \in Opt(SeqsUpTo({"src/b.ts", "src/w.css"}, MaxEntryPoints))},
     as \in {NoAssets} \cup
            {MkAssets(bd, fp) : bd \in Opt({"", "assets"}),
               fp \in Opt(SeqsUpTo(UserPatterns, MaxPatterns))},
     fn \in SeqsUpTo({"src/a.ts", "src/b.ts"}, MaxFileNames),
     raw \in RawConfigs}

MetaInputs == OptionInputs \cup ListInputs

\* Inputs of the runs of the two modes.
RunInputs ==
  {<<Some(MkUserConfig(Undefined, tf, w, es, as)),
     MkProject(DefaultTsConfigFile, to, Undefined, Undefined, Undefined,
               <<"src/a.ts">>, Undefined)>> :
     tf \in {Undefined},
     to \in Opt({"/proj/dist"}),
     w \in {Undefined, Some(TRUE)},
     es \in {NoEsbuild, MkEsbuild(Some(<<"src/w.css">>), Undefined, Undefined, Undefined)},
     as \in {NoAssets, MkAssets(Undefined, Some(<<"*.json">>))}}
  \cup
  {<<Undefined, Undefined>>,
   <<Some(MkUserConfig(Undefined, Undefined, Undefined, NoEsbuild, NoAssets)), Undefined>>,
   <<Some(MkUserConfig(Undefined, Some("tsconfig.build.json"), Some(TRUE), NoEsbuild, NoAssets)),
     MkProject(DefaultTsConfigFile, Undefined, Undefined, Undefined, Undefined,
               <<"src/a.ts">>, Undefined)>>}

(***************************************************************************)
(* State.                                                                  *)
(***************************************************************************)
VARIABLES
  userConfig,     \* what readUserConfig resolves to; {} when it rejects
  project,        \* the TypeScript configuration of the project; {} when none
  throwOnUnhandled, \* does the runtime end the process on an unhandled rejection
  pc,             \* where main() is
  plan,           \* the result of getBuildMetadata; {} before
  exitCode,       \* -1 while the process runs
  outTree,        \* the files of the output directory, each with its writer
  buildOp,        \* the initial code build: idle, running, ok, failed
  copyOp,         \* the initial asset copy: idle, running, ok, failed
  assetWatcher,   \* is the asset watcher subscribed
  codeWatcher,    \* is the code watcher subscribed
  copiesInFlight, \* watch-triggered copies started and not finished
  rebuildsInFlight, \* watch-triggered rebuild() calls started and not finished
  rimrafCalls,    \* number of deletions of the output directory
  copyCalls,      \* number of watch-triggered copyNonSourceFiles calls
  rebuildCalls,   \* number of builder.rebuild() calls
  events,         \* number of change events so far
  lastChange,     \* the file of the last change event
  reported,       \* number of errors written to the diagnostic stream
  buildWritten,   \* the output files the initial code build has written
  copyWritten,    \* the output files the initial asset copy has written
  initBuilds,     \* number of initial code builds started by this process
  initCopies,     \* number of initial asset copies started by this process
  runs,           \* number of processes started so far, this one included
  prevTree        \* the output directory as the previous process left it

vars == <<userConfig, project, throwOnUnhandled, pc, plan, exitCode, outTree, buildOp,
          copyOp, assetWatcher, codeWatcher, copiesInFlight, rebuildsInFlight,
          rimrafCalls, copyCalls, rebuildCalls, events, lastChange, reported,
          buildWritten, copyWritten, initBuilds, initCopies, runs, prevTree>>

\* what no step of a process changes
inputVars == <<userConfig, project, throwOnUnhandled, runs, prevTree>>

progressVars == <<buildWritten, copyWritten, initBuilds, initCopies>>

watchVars == <<assetWatcher, codeWatcher, copiesInFlight, rebuildsInFlight, copyCalls,
               rebuildCalls, events, lastChange>>

opVars == <<buildOp, copyOp>>

\* A file left in the output directory by an earlier run.
StaleFile == [path |-> [dir |-> <<>>, name |-> "old", ext |-> "js"], by |-> "stale"]

InitRest ==
  /\ pc = "start"
  /\ plan = Undefined
  /\ exitCode = -1
  /\ outTree \in {{}, {StaleFile}}
  /\ buildOp = "idle"
  /\ copyOp = "idle"
  /\ assetWatcher = FALSE
  /\ codeWatcher = FALSE
  /\ copiesInFlight = 0
  /\ rebuildsInFlight = 0
  /\ rimrafCalls = 0
  /\ copyCalls = 0
  /\ rebuildCalls = 0
  /\ events = 0
  /\ lastChange = ""
  /\ reported = 0
  /\ buildWritten = {}
  /\ copyWritten = {}
  /\ initBuilds = 0
  /\ initCopies = 0
  /\ runs = 1
  /\ prevTree = Undefined

Init ==
  /\ \E in \in RunInputs : userConfig = in[1] /\ project = in[2]
  /\ throwOnUnhandled \in BOOLEAN
  /\ InitRest

InitMeta ==
  /\ \E in \in MetaInputs : userConfig = Some(in[1]) /\ project = in[2]
  /\ throwOnUnhandled = TRUE
  /\ InitRest

Alive == exitCode = -1

\* console.error(err); process.exit(1)
ExitWithError ==
  /\ pc' = "exited"
  /\ exitCode' = 1
  /\ reported' = reported + 1

(***************************************************************************)
(* main, up to the choice of the mode.                                     *)
(***************************************************************************)
ReadUserConfig ==
  /\ pc = "start"
  /\ IF userConfig = Undefined
       THEN ExitWithError
       ELSE pc' = "loaded" /\ UNCHANGED <<exitCode, reported>>
  /\ UNCHANGED <<inputVars, progressVars, plan, outTree, opVars, watchVars, rimrafCalls>>

GetBuildMetadata ==
  /\ pc = "loaded"
  /\ IF getTSConfigThrows(project, Val(userConfig))
       THEN ExitWithError /\ UNCHANGED plan
       ELSE /\ plan' = Some(getBuildMetadata(Val(userConfig), project))
            /\ pc' = "resolved"
            /\ UNCHANGED <<exitCode, reported>>
  /\ UNCHANGED <<inputVars, progressVars, outTree, opVars, watchVars, rimrafCalls>>

(***************************************************************************)
(* What the two operations write.  The code build emits one file per entry *)
(* point, at its path relative to the common directory of the entry        *)
(* points; the asset copy copies every file matching the patterns from     *)
(* baseDir to the same relative path under outDir.                         *)
(***************************************************************************)
Range(s) == {s[i] : i \in 1..Len(s)}

\* the longest directory prefix shared by all the files of S
CommonDir(S) ==
  LET prefixes == {SubSeq(DirOf(f), 1, k) : f \in S, k \in 0..1}
      common == {p \in prefixes : \A f \in S : IsPrefix(p, DirOf(f))}
  IN  CHOOSE p \in common : \A q \in common : Len(q) <= Len(p)

RelDir(f, base) == SubSeq(DirOf(f), Len(base) + 1, Len(DirOf(f)))

\* the extension esbuild gives the output of an entry point
OutExt(f) == IF ExtOf(f) = "css" THEN "css" ELSE "js"

BuildOutputs(p) ==
  LET eps == Range(p.esbuildOptions.entryPoints) IN
    {[dir |-> RelDir(e, CommonDir(eps)), name |-> NameOf(e), ext |-> OutExt(e)] : e \in eps}

\* the files cpy(patterns, relativeOutDir, {cwd: baseDir, parents: true}) copies
CopySources(p) ==
  {f \in Files :
     MatchesFrom(p.assetsOptions.patterns, DirPath(p.assetsOptions.baseDir), f)}

CopyOutputs(p) ==
  {[dir |-> RelDir(f, DirPath(p.assetsOptions.baseDir)), name |-> NameOf(f),
    ext |-> ExtOf(f)] : f \in CopySources(p)}

WrittenBy(op) == IF op = "build" THEN buildWritten ELSE copyWritten

\* a write replaces what the file held
Write(tree, o, op) == {w \in tree : w.path # o} \cup {[path |-> o, by |-> op]}

WriteAll(tree, S, op) ==
  {w \in tree : w.path \notin S} \cup {[path |-> o, by |-> op] : o \in S}

(***************************************************************************)
(* One-shot mode: normalBuild.                                             *)
(***************************************************************************)
\* a main() that runs normalBuild whatever the watch flag says
NormalBuild_anyMode ==
  /\ pc = "resolved"
  /\ outTree' = {}
  /\ rimrafCalls' = rimrafCalls + 1
  /\ buildOp' = "running"
  /\ copyOp' = "running"
  /\ initBuilds' = initBuilds + 1
  /\ initCopies' = initCopies + 1
  /\ pc' = "oneshot"
  /\ UNCHANGED <<inputVars, buildWritten, copyWritten, plan, exitCode, watchVars, reported>>

\* rimraf.sync(outDir), then both operations are called before the await.
NormalBuild ==
  /\ pc = "resolved"
  /\ ~TruthyBool(Val(userConfig).watch)
  /\ outTree' = {}
  /\ rimrafCalls' = rimrafCalls + 1
  /\ buildOp' = "running"
  /\ copyOp' = "running"
  /\ initBuilds' = initBuilds + 1
  /\ initCopies' = initCopies + 1
  /\ pc' = "oneshot"
  /\ UNCHANGED <<inputVars, buildWritten, copyWritten, plan, exitCode, watchVars, reported>>

\* Promise.all resolves when both promises have resolved; main resolves and
\* the process ends with nothing left to run.
NormalBuildResolve_race ==
  /\ pc = "oneshot"
  /\ "ok" \in {buildOp, copyOp}
  /\ pc' = "done"
  /\ exitCode' = 0
  /\ UNCHANGED <<inputVars, progressVars, plan, outTree, opVars, watchVars, rimrafCalls, reported>>

NormalBuildResolve ==
  /\ pc = "oneshot"
  /\ buildOp = "ok"
  /\ copyOp = "ok"
  /\ pc' = "done"
  /\ exitCode' = 0
  /\ UNCHANGED <<inputVars, progressVars, plan, outTree, opVars, watchVars, rimrafCalls, reported>>

\* Promise.all rejects as soon as one promise rejects; main().catch prints the
\* error and exits.
NormalBuildReject_rollback ==
  /\ pc = "oneshot"
  /\ "failed" \in {buildOp, copyOp}
  /\ ExitWithError
  /\ outTree' = {}
  /\ UNCHANGED <<inputVars, progressVars, plan, opVars, watchVars, rimrafCalls>>

NormalBuildReject ==
  /\ pc = "oneshot"
  /\ "failed" \in {buildOp, copyOp}
  /\ ExitWithError
  /\ UNCHANGED <<inputVars, progressVars, plan, outTree, opVars, watchVars, rimrafCalls>>

(***************************************************************************)
(* The initial code build and asset copy, as the environment runs them.    *)
(***************************************************************************)
BuildWrite ==
  /\ Alive
  /\ buildOp = "running"
  /\ \E o \in BuildOutputs(Val(plan)) \ WrittenBy("build") :
       /\ outTree' = Write(outTree, o, "build")
       /\ buildWritten' = buildWritten \cup {o}
  /\ UNCHANGED <<inputVars, copyWritten, initBuilds, initCopies, pc, plan, exitCode, opVars,
                 watchVars, rimrafCalls, reported>>

BuildSucceed ==
  /\ Alive
  /\ buildOp = "running"
  /\ BuildOutputs(Val(plan)) \subseteq WrittenBy("build")
  /\ buildOp' = "ok"
  /\ UNCHANGED <<inputVars, progressVars, pc, plan, exitCode, outTree, copyOp, watchVars, rimrafCalls,
                 reported>>

BuildFail ==
  /\ Alive
  /\ buildOp = "running"
  /\ buildOp' = "failed"
  /\ UNCHANGED <<inputVars, progressVars, pc, plan, exitCode, outTree, copyOp, watchVars, rimrafCalls,
                 reported>>

CopyWrite ==
  /\ Alive
  /\ copyOp = "running"
  /\ \E o \in CopyOutputs(Val(plan)) \ WrittenBy("copy") :
       /\ outTree' = Write(outTree, o, "copy")
       /\ copyWritten' = copyWritten \cup {o}
  /\ UNCHANGED <<inputVars, buildWritten, initBuilds, initCopies, pc, plan, exitCode, opVars,
                 watchVars, rimrafCalls, reported>>

CopySucceed ==
  /\ Alive
  /\ copyOp = "running"
  /\ CopyOutputs(Val(plan)) \subseteq WrittenBy("copy")
  /\ copyOp' = "ok"
  /\ UNCHANGED <<inputVars, progressVars, pc, plan, exitCode, outTree, buildOp, watchVars, rimrafCalls,
                 reported>>

CopyFail ==
  /\ Alive
  /\ copyOp = "running"
  /\ copyOp' = "failed"
  /\ UNCHANGED <<inputVars, progressVars, pc, plan, exitCode, outTree, buildOp, watchVars, rimrafCalls,
                 reported>>

(***************************************************************************)
(* Watch mode: watchBuild.                                                 *)
(***************************************************************************)
\* rimraf.sync(outDir); await build({..., incremental: true})
WatchBuild_noRimraf ==
  /\ pc = "resolved"
  /\ TruthyBool(Val(userConfig).watch)
  /\ buildOp' = "running"
  /\ initBuilds' = initBuilds + 1
  /\ pc' = "watch_build"
  /\ UNCHANGED <<inputVars, buildWritten, copyWritten, initCopies, plan, exitCode, outTree,
                 copyOp, watchVars, rimrafCalls, reported>>

WatchBuild ==
  /\ pc = "resolved"
  /\ TruthyBool(Val(userConfig).watch)
  /\ outTree' = {}
  /\ rimrafCalls' = rimrafCalls + 1
  /\ buildOp' = "running"
  /\ initBuilds' = initBuilds + 1
  /\ pc' = "watch_build"
  /\ UNCHANGED <<inputVars, buildWritten, copyWritten, initCopies, plan, exitCode, copyOp,
                 watchVars, reported>>

\* a watchBuild that does not await the initial build
WatchInitialCopy_noAwait ==
  /\ pc = "watch_build"
  /\ copyOp' = "running"
  /\ initCopies' = initCopies + 1
  /\ pc' = "watch_copy"
  /\ UNCHANGED <<inputVars, buildWritten, copyWritten, initBuilds, plan, exitCode, outTree,
                 buildOp, watchVars, rimrafCalls, reported>>

\* the initial build resolved: await copyNonSourceFiles(assetsOptions)
WatchInitialCopy ==
  /\ pc = "watch_build"
  /\ buildOp = "ok"
  /\ copyOp' = "running"
  /\ initCopies' = initCopies + 1
  /\ pc' = "watch_copy"
  /\ UNCHANGED <<inputVars, buildWritten, copyWritten, initBuilds, plan, exitCode, outTree,
                 buildOp, watchVars, rimrafCalls, reported>>

\* a watchBuild that does not await the initial copy
WatchSubscribe_noAwait ==
  /\ pc = "watch_copy"
  /\ assetWatcher' = TRUE
  /\ codeWatcher' = TRUE
  /\ pc' = "watching"
  /\ UNCHANGED <<inputVars, progressVars, plan, exitCode, outTree, opVars, copiesInFlight,
                 rebuildsInFlight, rimrafCalls, copyCalls, rebuildCalls, events,
                 lastChange, reported>>

\* the initial copy resolved: both watchers are subscribed and main returns
WatchSubscribe ==
  /\ pc = "watch_copy"
  /\ copyOp = "ok"
  /\ assetWatcher' = TRUE
  /\ codeWatcher' = TRUE
  /\ pc' = "watching"
  /\ UNCHANGED <<inputVars, progressVars, plan, exitCode, outTree, opVars, copiesInFlight,
                 rebuildsInFlight, rimrafCalls, copyCalls, rebuildCalls, events,
                 lastChange, reported>>

\* the initial build or copy rejected: main().catch prints the error and exits
WatchBuildReject ==
  /\ IF pc = "watch_build" THEN buildOp = "failed"
     ELSE pc = "watch_copy" /\ copyOp = "failed"
  /\ ExitWithError
  /\ UNCHANGED <<inputVars, progressVars, plan, outTree, opVars, watchVars, rimrafCalls>>

\* const ignored = outDir + '/**'.  The glob is tested against the path as the
\* watcher names it, which for the paths of the model is relative to the
\* working directory: the glob of an absolute outDir matches none of them.
Ignored(p, f) ==
  /\ p.outDir # ""
  /\ ~IsAbsolute(p.outDir)
  /\ IsPrefix(DirPath(p.outDir), DirOf(f))

\* watch(assetsOptions.patterns, { ignored }): the patterns are resolved from
\* the working directory.
AssetWatcherSees(p, f) ==
  /\ MatchesFrom(p.assetsOptions.patterns, <<>>, f)
  /\ ~Ignored(p, f)

\* watch(esbuildOptions.entryPoints, { ignored })
CodeWatcherSees(p, f) ==
  /\ f \in Range(p.esbuildOptions.entryPoints)
  /\ ~Ignored(p, f)

\* handlers that skip an event while their operation is in flight
Change_serialised(f) ==
  /\ pc = "watching"
  /\ Alive
  /\ events < MaxEvents
  /\ events' = events + 1
  /\ lastChange' = f
  /\ IF assetWatcher /\ AssetWatcherSees(Val(plan), f) /\ copiesInFlight = 0
       THEN copyCalls' = copyCalls + 1 /\ copiesInFlight' = copiesInFlight + 1
       ELSE UNCHANGED <<copyCalls, copiesInFlight>>
  /\ IF codeWatcher /\ CodeWatcherSees(Val(plan), f) /\ rebuildsInFlight = 0
       THEN rebuildCalls' = rebuildCalls + 1 /\ rebuildsInFlight' = rebuildsInFlight + 1
       ELSE UNCHANGED <<rebuildCalls, rebuildsInFlight>>
  /\ UNCHANGED <<inputVars, progressVars, pc, plan, exitCode, outTree, opVars, assetWatcher,
                 codeWatcher, rimrafCalls, reported>>

\* A change event on file f.  Each watcher that observes f runs its handler up
\* to its await: the asset watcher calls copyNonSourceFiles, the code watcher
\* calls builder.rebuild().
Change(f) ==
  /\ pc = "watching"
  /\ Alive
  /\ events < MaxEvents
  /\ events' = events + 1
  /\ lastChange' = f
  /\ IF assetWatcher /\ AssetWatcherSees(Val(plan), f)
       THEN copyCalls' = copyCalls + 1 /\ copiesInFlight' = copiesInFlight + 1
       ELSE UNCHANGED <<copyCalls, copiesInFlight>>
  /\ IF codeWatcher /\ CodeWatcherSees(Val(plan), f)
       THEN rebuildCalls' = rebuildCalls + 1 /\ rebuildsInFlight' = rebuildsInFlight + 1
       ELSE UNCHANGED <<rebuildCalls, rebuildsInFlight>>
  /\ UNCHANGED <<inputVars, progressVars, pc, plan, exitCode, outTree, opVars, assetWatcher, codeWatcher,
                 rimrafCalls, reported>>

ChangeEvent == \E f \in Files : Change(f)

\* The promise of an async handler rejected with nothing to catch it: the
\* runtime reports the rejection, and ends the process when it is set to.
UnhandledRejection ==
  /\ reported' = reported + 1
  /\ IF throwOnUnhandled
       THEN /\ pc' = "exited"
            /\ exitCode' = 1
            /\ assetWatcher' = FALSE
            /\ codeWatcher' = FALSE
       ELSE UNCHANGED <<pc, exitCode, assetWatcher, codeWatcher>>

RecopySucceed ==
  /\ Alive
  /\ copiesInFlight > 0
  /\ copiesInFlight' = copiesInFlight - 1
  /\ outTree' = WriteAll(outTree, CopyOutputs(Val(plan)), "copy")
  /\ UNCHANGED <<inputVars, progressVars, pc, plan, exitCode, opVars, assetWatcher,
                 codeWatcher, rebuildsInFlight, rimrafCalls, copyCalls, rebuildCalls,
                 events, lastChange, reported>>

RecopyFail ==
  /\ Alive
  /\ copiesInFlight > 0
  /\ copiesInFlight' = copiesInFlight - 1
  /\ \E S \in SUBSET CopyOutputs(Val(plan)) : outTree' = WriteAll(outTree, S, "copy")
  /\ UnhandledRejection
  /\ UNCHANGED <<inputVars, progressVars, plan, opVars, rebuildsInFlight, rimrafCalls,
                 copyCalls, rebuildCalls, events, lastChange>>

RebuildSucceed ==
  /\ Alive
  /\ rebuildsInFlight > 0
  /\ rebuildsInFlight' = rebuildsInFlight - 1
  /\ outTree' = WriteAll(outTree, BuildOutputs(Val(plan)), "build")
  /\ UNCHANGED <<inputVars, progressVars, pc, plan, exitCode, opVars, assetWatcher,
                 codeWatcher, copiesInFlight, rimrafCalls, copyCalls, rebuildCalls,
                 events, lastChange, reported>>

RebuildFail ==
  /\ Alive
  /\ rebuildsInFlight > 0
  /\ rebuildsInFlight' = rebuildsInFlight - 1
  /\ \E S \in SUBSET BuildOutputs(Val(plan)) : outTree' = WriteAll(outTree, S, "build")
  /\ UnhandledRejection
  /\ UNCHANGED <<inputVars, progressVars, plan, opVars, copiesInFlight, rimrafCalls,
                 copyCalls, rebuildCalls, events, lastChange>>

(***************************************************************************)
(* The command is run again after a one-shot run that succeeded: a new     *)
(* process, the same configuration and sources, the output directory as    *)
(* the run before left it.                                                 *)
(***************************************************************************)
RunAgain ==
  /\ pc = "done"
  /\ runs < MaxRuns
  /\ runs' = runs + 1
  /\ prevTree' = Some(outTree)
  /\ pc' = "start"
  /\ plan' = Undefined
  /\ exitCode' = -1
  /\ buildOp' = "idle"
  /\ copyOp' = "idle"
  /\ buildWritten' = {}
  /\ copyWritten' = {}
  /\ initBuilds' = 0
  /\ initCopies' = 0
  /\ rimrafCalls' = 0
  /\ reported' = 0
  /\ UNCHANGED <<userConfig, project, throwOnUnhandled, outTree, watchVars>>

Next ==
  \/ ReadUserConfig
  \/ GetBuildMetadata
  \/ NormalBuild
  \/ NormalBuildResolve
  \/ NormalBuildReject
  \/ BuildWrite
  \/ BuildSucceed
  \/ BuildFail
  \/ CopyWrite
  \/ CopySucceed
  \/ CopyFail
  \/ WatchBuild
  \/ WatchInitialCopy
  \/ WatchSubscribe
  \/ WatchBuildReject
  \/ ChangeEvent
  \/ RecopySucceed
  \/ RecopyFail
  \/ RebuildSucceed
  \/ RebuildFail
  \/ RunAgain

Spec == Init /\ [][Next]_vars

NextMeta == ReadUserConfig \/ GetBuildMetadata

SpecMeta == InitMeta /\ [][NextMeta]_vars

(***************************************************************************)
(* Properties of getBuildMetadata, checked under SpecMeta.                 *)
(***************************************************************************)
Resolved == plan # Undefined

ThePlan == Val(plan)

TheUser == Val(userConfig)

TheTsConfig == Val(project)

IsBool(o) == o # Undefined

\* The table of the source-map rule: <<sourceMap, inlineSourceMap, inlineSources>>.
SourceMapTable(sm, ism, is) ==
  CASE sm /\ ism -> "false"
    [] sm /\ ~ism -> "true"
    [] ~sm /\ ism -> "inline"
    [] ~sm /\ ~ism -> "false"

\* C1: for each of the 8 combinations of boolean sourceMap, inlineSourceMap and
\* inlineSources, the computed sourcemap option is false when inlineSources is
\* set with neither of the others, false when sourceMap and inlineSourceMap are
\* both set, "inline" when inlineSourceMap is set without sourceMap, and the
\* value of sourceMap otherwise.
C1_SourceMapRule ==
  (/\ Resolved
   /\ IsBool(TheTsConfig.options.sourceMap)
   /\ IsBool(TheTsConfig.options.inlineSourceMap)
   /\ IsBool(TheTsConfig.options.inlineSources))
  => LET sm == Val(TheTsConfig.options.sourceMap)
         ism == Val(TheTsConfig.options.inlineSourceMap)
         is == Val(TheTsConfig.options.inlineSources)
         r == ThePlan.esbuildOptions.sourcemap
     IN  /\ (is /\ ~ism /\ ~sm) => r = "false"
         /\ (sm /\ ism) => r = "false"
         /\ (ism /\ ~sm) => r = "inline"
         /\ ~(is /\ ~ism /\ ~sm) /\ ~(sm /\ ism) /\ ~(ism /\ ~sm)
              => r = (IF sm THEN "true" ELSE "false")
         /\ r = SourceMapTable(sm, ism, is)

C1_Witness ==
  /\ Resolved
  /\ TheTsConfig.options.sourceMap = Some(TRUE)
  /\ TheTsConfig.options.inlineSourceMap = Some(TRUE)
  /\ TheTsConfig.options.inlineSources = Some(TRUE)
  /\ ThePlan.esbuildOptions.sourcemap = "false"

\* C2, as claimed: the computed outDir is the user configuration's outDir
\* whenever it has one, otherwise the compiler configuration's whenever it has
\* one, otherwise "dist"; the code build's outdir and the asset copy's outDir
\* are that value.
C2_OutDirPrecedence ==
  Resolved =>
    /\ ThePlan.outDir =
         (IF TheUser.outDir # Undefined THEN Val(TheUser.outDir)
          ELSE IF TheTsConfig.options.outDir # Undefined
            THEN Val(TheTsConfig.options.outDir)
          ELSE "dist")
    /\ ThePlan.esbuildOptions.outdir = ThePlan.outDir
    /\ ThePlan.assetsOptions.outDir = ThePlan.outDir

\* an optional string that is present and not empty
NonEmpty(o) == o # Undefined /\ Val(o) # ""

\* C2, amended: the computed outDir is the user configuration's outDir whenever
\* that is a non-empty string, otherwise the compiler configuration's whenever
\* that is a non-empty string, otherwise "dist" (an empty outDir counts as
\* absent); the code build's outdir and the asset copy's outDir are that value.
C2_OutDirPrecedenceNonEmpty ==
  Resolved =>
    /\ NonEmpty(TheUser.outDir) => ThePlan.outDir = Val(TheUser.outDir)
    /\ (~NonEmpty(TheUser.outDir) /\ NonEmpty(TheTsConfig.options.outDir))
         => ThePlan.outDir = Val(TheTsConfig.options.outDir)
    /\ (~NonEmpty(TheUser.outDir) /\ ~NonEmpty(TheTsConfig.options.outDir))
         => ThePlan.outDir = "dist"
    /\ ThePlan.esbuildOptions.outdir = ThePlan.outDir
    /\ ThePlan.assetsOptions.outDir = ThePlan.outDir

C2_Witness ==
  /\ Resolved
  /\ TheUser.outDir = Some("out")
  /\ TheTsConfig.options.outDir = Some("/proj/build")
  /\ ThePlan.outDir = "out"
  /\ ThePlan.esbuildOptions.outdir = "out"
  /\ ThePlan.assetsOptions.outDir = "out"

\* The front of the asset pattern list: all but its last element.
Front(s) == SubSeq(s, 1, Len(s) - 1)

\* C3, as claimed: target, minify, plugins, assets.baseDir and
\* assets.filePatterns are the user configuration's value whenever it has one;
\* otherwise the compiler
\* configuration's equivalent where one exists (the raw compilerOptions.target);
\* otherwise the default ("es6", false, no plugins, "src", match-everything).
C3_UserValueVerbatim ==
  Resolved =>
    LET uTarget == Chain(TheUser.esbuild, "target")
        uMinify == Chain(TheUser.esbuild, "minify")
        uPlugins == Chain(TheUser.esbuild, "plugins")
        uBaseDir == Chain(TheUser.assets, "baseDir")
        uPatterns == Chain(TheUser.assets, "filePatterns")
        cTarget == rawTargetOf(TheTsConfig)
    IN  /\ ThePlan.esbuildOptions.target =
             (IF uTarget # Undefined THEN Val(uTarget)
              ELSE IF cTarget # Undefined THEN Val(cTarget) ELSE "es6")
        /\ ThePlan.esbuildOptions.minify =
             (IF uMinify # Undefined THEN Val(uMinify) ELSE FALSE)
        /\ ThePlan.esbuildOptions.plugins =
             (IF uPlugins # Undefined THEN Val(uPlugins) ELSE <<>>)
        /\ ThePlan.assetsOptions.baseDir =
             (IF uBaseDir # Undefined THEN Val(uBaseDir) ELSE "src")
        /\ Front(ThePlan.assetsOptions.patterns) =
             (IF uPatterns # Undefined THEN Val(uPatterns) ELSE <<MatchAll>>)

\* C3, amended: as claimed, with an empty string counting as absent: target
\* and assets.baseDir are the user's value whenever that is a non-empty
\* string; target is otherwise the raw compilerOptions.target whenever that is
\* a non-empty string, otherwise "es6"; baseDir is otherwise "src"; minify,
\* plugins and filePatterns are the user's value whenever present (an empty
\* list included), otherwise false, no plugins and match-everything.
C3_UserValueNonEmpty ==
  Resolved =>
    LET uTarget == Chain(TheUser.esbuild, "target")
        uMinify == Chain(TheUser.esbuild, "minify")
        uPlugins == Chain(TheUser.esbuild, "plugins")
        uBaseDir == Chain(TheUser.assets, "baseDir")
        uPatterns == Chain(TheUser.assets, "filePatterns")
        cTarget == rawTargetOf(TheTsConfig)
    IN  /\ NonEmpty(uTarget) => ThePlan.esbuildOptions.target = Val(uTarget)
        /\ (~NonEmpty(uTarget) /\ NonEmpty(cTarget))
             => ThePlan.esbuildOptions.target = Val(cTarget)
        /\ (~NonEmpty(uTarget) /\ ~NonEmpty(cTarget))
             => ThePlan.esbuildOptions.target = "es6"
        /\ ThePlan.esbuildOptions.minify =
             (IF uMinify # Undefined THEN Val(uMinify) ELSE FALSE)
        /\ ThePlan.esbuildOptions.plugins =
             (IF uPlugins # Undefined THEN Val(uPlugins) ELSE <<>>)
        /\ NonEmpty(uBaseDir) => ThePlan.assetsOptions.baseDir = Val(uBaseDir)
        /\ ~NonEmpty(uBaseDir) => ThePlan.assetsOptions.baseDir = "src"
        /\ Front(ThePlan.assetsOptions.patterns) =
             (IF uPatterns # Undefined THEN Val(uPatterns) ELSE <<MatchAll>>)

C3_Witness ==
  /\ Resolved
  /\ Chain(TheUser.esbuild, "target") = Some("es2020")
  /\ rawTargetOf(TheTsConfig) = Some("ES5")
  /\ Chain(TheUser.esbuild, "minify") = Some(TRUE)
  /\ Chain(TheUser.esbuild, "plugins") = Some(<<"plugin">>)
  /\ ThePlan.esbuildOptions.target = "es2020"
  /\ ThePlan.esbuildOptions.minify = TRUE
  /\ ThePlan.esbuildOptions.plugins = <<"plugin">>

\* C4: for every assets.filePatterns, absent and empty included, the asset
\* pattern list ends with the compilable-extension exclusion and what precedes
\* it is the user's patterns (or the match-everything default) in their order.
C4_ExclusionLast ==
  Resolved =>
    LET patterns == ThePlan.assetsOptions.patterns
        uPatterns == Chain(TheUser.assets, "filePatterns")
        given == IF uPatterns # Undefined THEN Val(uPatterns) ELSE <<"**">>
    IN  /\ Len(patterns) = Len(given) + 1
        /\ patterns[Len(patterns)] = "!**/*.{ts,js,tsx,jsx}"
        /\ \A i \in 1..Len(given) : patterns[i] = given[i]

C4_Witness ==
  /\ Resolved
  /\ Chain(TheUser.assets, "filePatterns") = Some(<<>>)
  /\ ThePlan.assetsOptions.patterns = <<ExcludeCompilable>>

OneShotStarted == userConfig # Undefined /\ ~TruthyBool(TheUser.watch) /\ rimrafCalls > 0

WatchStarted == userConfig # Undefined /\ TruthyBool(TheUser.watch) /\ rimrafCalls > 0

Finished(op) == op \in {"ok", "failed"}

\* C6, as claimed: in one-shot mode both operations are started before either
\* is awaited, the run completes, with success or with failure, only after both
\* have finished, and it succeeds exactly when both succeed.
C6_CompletesAfterBoth ==
  /\ pc = "oneshot" => buildOp # "idle" /\ copyOp # "idle"
  /\ (OneShotStarted /\ ~Alive) =>
       /\ Finished(buildOp) /\ Finished(copyOp)
       /\ exitCode = 0 <=> (buildOp = "ok" /\ copyOp = "ok")

\* C6, amended: in one-shot mode both operations are started before either is
\* awaited; the run completes with success only after both have finished with
\* success; it completes with failure once one of them has failed, whether or
\* not the other has finished; it succeeds exactly when both succeed.
C6_JoinOnSuccessFailFast ==
  /\ pc = "oneshot" => buildOp # "idle" /\ copyOp # "idle"
  /\ (OneShotStarted /\ ~Alive) =>
       /\ exitCode = 0 => buildOp = "ok" /\ copyOp = "ok"
       /\ exitCode = 1 => "failed" \in {buildOp, copyOp}
       /\ exitCode = 0 <=> (buildOp = "ok" /\ copyOp = "ok")

C6_Witness ==
  /\ OneShotStarted
  /\ exitCode = 1
  /\ buildOp = "failed"
  /\ copyOp = "running"

\* C7: in one-shot mode, when the asset copy fails and the code build
\* succeeds, the run fails with exit code 1 and the output directory holds
\* every file the code build produced.
C7_NoRollback ==
  (OneShotStarted /\ ~Alive /\ copyOp = "failed" /\ buildOp = "ok") =>
    /\ exitCode = 1
    /\ BuildOutputs(ThePlan) # {}
    /\ \A o \in BuildOutputs(ThePlan) : \E w \in outTree : w.path = o

C7_Witness ==
  /\ OneShotStarted
  /\ ~Alive
  /\ copyOp = "failed"
  /\ buildOp = "ok"
  /\ [path |-> [dir |-> <<>>, name |-> "a", ext |-> "js"], by |-> "build"] \in outTree

\* C8: in both modes the output directory is deleted exactly once, before any
\* code build or asset copy starts, and in watch mode no rebuild or re-copy
\* comes after another deletion.
C8_DeletedOnceUpFront ==
  /\ rimrafCalls <= 1
  /\ (buildOp # "idle" \/ copyOp # "idle" \/ copyCalls > 0 \/ rebuildCalls > 0)
       => rimrafCalls = 1
  /\ pc \in {"oneshot", "done", "watch_build", "watch_copy", "watching"}
       => rimrafCalls = 1
  /\ rimrafCalls = 1 => StaleFile \notin outTree

C8_Witness ==
  /\ WatchStarted
  /\ rebuildCalls > 0
  /\ copyCalls > 0
  /\ rimrafCalls = 1

\* C9: in watch mode a change event on a file matching an asset pattern
\* starts exactly one re-copy and no rebuild, and a change event on an entry
\* point starts exactly one rebuild() and no re-copy.
C9_OneActionPerChange ==
  [][events' = events + 1 =>
       LET f == lastChange' IN
         /\ f \in CopySources(ThePlan) =>
              copyCalls' = copyCalls + 1 /\ rebuildCalls' = rebuildCalls
         /\ f \in Range(ThePlan.esbuildOptions.entryPoints) =>
              rebuildCalls' = rebuildCalls + 1 /\ copyCalls' = copyCalls]_vars

\* C10: in watch mode, after a watch-triggered rebuild or re-copy has failed,
\* the failure has been reported, the process has not exited, both watchers
\* are subscribed and a further change event is still taken.
C10_WatchSurvivesFailure ==
  (WatchStarted /\ copyCalls + rebuildCalls > 0 /\ reported > 0) =>
    /\ Alive
    /\ assetWatcher
    /\ codeWatcher
    /\ events < MaxEvents => ENABLED ChangeEvent

\* The files under the output directory of the plan, whichever way the
\* directory is written.
UnderOutDir(f) ==
  /\ ThePlan.outDir # ""
  /\ IsPrefix(DirPath(ThePlan.outDir), DirOf(f))

\* C11: in watch mode no change to a path under the output directory starts
\* a rebuild or a re-copy (so the writes of a rebuild or of a re-copy start
\* no further one).
C11_OutDirNeverTriggers ==
  [][(events' = events + 1 /\ UnderOutDir(lastChange')) =>
       (copyCalls' = copyCalls /\ rebuildCalls' = rebuildCalls)]_vars

\* C12: for every plan no file is processed by both the code build and the
\* asset copy: no entry point is among the files the asset copy copies, and
\* the two write no common file of the output directory.
C12_NoDoubleProcessing ==
  Resolved =>
    /\ Range(ThePlan.esbuildOptions.entryPoints) \cap CopySources(ThePlan) = {}
    /\ BuildOutputs(ThePlan) \cap CopyOutputs(ThePlan) = {}
    /\ buildWritten \cap copyWritten = {}

\* No compiler configuration file can be located, or the user configuration
\* module cannot be loaded.
ConfigFails ==
  IF userConfig = Undefined \/ project = Undefined THEN TRUE
  ELSE LET asked == IF TheUser.tsConfigFile = Undefined THEN "tsconfig.json"
                    ELSE Val(TheUser.tsConfigFile)
       IN  asked = "" \/ TheTsConfig.tsConfigFile # asked

\* C13: when no compiler configuration file can be located, or the user
\* configuration cannot be loaded, the run aborts before any build step: the
\* output directory is never deleted nor written, no code build, asset copy
\* or watcher is ever started, and the process exits only with code 1,
\* having printed the error.
C13_AbortBeforeBuild ==
  /\ [](ConfigFails =>
          /\ pc \in {"start", "loaded", "exited"}
          /\ plan = Undefined
          /\ rimrafCalls = 0
          /\ buildOp = "idle" /\ copyOp = "idle"
          /\ initBuilds = 0 /\ initCopies = 0
          /\ ~assetWatcher /\ ~codeWatcher
          /\ copyCalls = 0 /\ rebuildCalls = 0
          /\ (pc = "exited" <=> exitCode = 1)
          /\ (pc = "exited" => reported = 1)
          /\ (pc = "start" /\ userConfig = Undefined => ~ENABLED (pc' = "loaded" /\ ReadUserConfig))
          /\ (pc = "loaded" => ~ENABLED (pc' = "resolved" /\ GetBuildMetadata)))
  /\ [][ConfigFails => outTree' = outTree]_vars

C13_Witness ==
  /\ userConfig # Undefined
  /\ ConfigFails
  /\ pc = "exited"
  /\ exitCode = 1
  /\ outTree = {StaleFile}

\* C14: when the one-shot build has run twice in succession on the same
\* sources and configuration and both runs succeeded, the output tree after
\* the second run is the one the first run left.
C14_SecondRunSameTree ==
  (runs > 1 /\ pc = "done") => outTree = Val(prevTree)

\* config.watch is truthy
WatchFlag == userConfig # Undefined /\ TruthyBool(TheUser.watch)

\* C15: a run executes exactly one of the two modes, chosen once from the
\* watch flag.  Without the flag the run is never in a watch step, no watcher
\* is subscribed, no change event is handled and rebuild() is never called;
\* with the flag the run is never in the one-shot step and the copy is never
\* started alongside the build; the mode is entered at most once.
C15_OneModePerRun ==
  /\ pc \in {"oneshot", "done"} => ~WatchFlag
  /\ pc \in {"watch_build", "watch_copy", "watching"} => WatchFlag
  /\ rimrafCalls <= 1
  /\ rimrafCalls = 1 => OneShotStarted \/ WatchStarted
  /\ OneShotStarted =>
       /\ ~assetWatcher /\ ~codeWatcher
       /\ events = 0 /\ rebuildCalls = 0 /\ copyCalls = 0
       /\ initBuilds = 1 /\ initCopies = 1
  /\ WatchStarted =>
       /\ initBuilds = 1
       /\ initCopies > 0 => buildOp = "ok"
       /\ ~(buildOp = "running" /\ copyOp = "running")

C15_Witness ==
  /\ WatchStarted
  /\ pc = "watching"
  /\ codeWatcher
  /\ rebuildCalls = 1
  /\ initCopies = 1

\* C16: in watch mode startup runs the initial code build exactly once and
\* the initial asset copy at most once and, once watching, exactly once; the
\* copy is started only when the build has completed with all its files
\* written; no watcher is subscribed and no change event is handled before
\* both have completed.
C16_WatchStartupSequential ==
  WatchStarted =>
    /\ initBuilds = 1
    /\ initCopies <= 1
    /\ initCopies = 1 =>
         buildOp = "ok" /\ buildWritten = BuildOutputs(ThePlan)
    /\ copyOp # "idle" => initCopies = 1
    /\ (assetWatcher \/ codeWatcher \/ events > 0 \/ pc = "watching") =>
         /\ buildOp = "ok" /\ copyOp = "ok"
         /\ initCopies = 1
         /\ copyWritten = CopyOutputs(ThePlan)

C16_Witness ==
  /\ WatchStarted
  /\ assetWatcher /\ codeWatcher
  /\ events = 1
  /\ initBuilds = 1 /\ initCopies = 1
  /\ buildOp = "ok" /\ copyOp = "ok"

\* C17, as claimed: in watch mode at no time are two re-copies in flight, nor
\* two rebuild() calls, nor a re-copy together with a rebuild.
C17_NonOverlapping ==
  WatchStarted =>
    /\ copiesInFlight <= 1
    /\ rebuildsInFlight <= 1
    /\ ~(copiesInFlight > 0 /\ rebuildsInFlight > 0)

\* C17, amended: the watch-triggered operations are not serialised.  A
\* change event on a file a watcher observes starts that watcher's operation
\* at once, exactly one, whatever is in flight; so the operations in flight
\* of each kind are bounded by the calls made, and those by the number of
\* change events, and by nothing else.
C17_StartedPerEventUnserialised ==
  /\ [](/\ copiesInFlight <= copyCalls /\ copyCalls <= events
        /\ rebuildsInFlight <= rebuildCalls /\ rebuildCalls <= events)
  /\ [][events' = events + 1 =>
          LET f == lastChange'
              c == IF AssetWatcherSees(ThePlan, f) THEN 1 ELSE 0
              r == IF CodeWatcherSees(ThePlan, f) THEN 1 ELSE 0
          IN  /\ copyCalls' = copyCalls + c
              /\ copiesInFlight' = copiesInFlight + c
              /\ rebuildCalls' = rebuildCalls + r
              /\ rebuildsInFlight' = rebuildsInFlight + r]_vars

C17_Witness ==
  /\ WatchStarted
  /\ Alive
  /\ copiesInFlight = 2
  /\ events = 2

\* C18: in watch mode a change to any file the asset copy copies (a file
\* matching the asset patterns relative to assets.baseDir, outside the output
\* directory) starts a re-copy.
C18_CopiedFileChangeRecopies ==
  [][(events' = events + 1
        /\ lastChange' \in CopySources(ThePlan)
        /\ ~UnderOutDir(lastChange')) =>
       copyCalls' = copyCalls + 1]_vars

\* C19: in watch mode, once the initial code build or the initial asset copy
\* has failed, no watcher is subscribed and no change event is handled, the
\* run can only exit, which it does with the error printed and code 1; when
\* it is the build that failed the copy was never started.
C19_WatchStartupFailure ==
  (WatchStarted /\ (buildOp = "failed" \/ copyOp = "failed")) =>
    /\ ~assetWatcher /\ ~codeWatcher
    /\ events = 0 /\ copyCalls = 0 /\ rebuildCalls = 0
    /\ buildOp = "failed" => (copyOp = "idle" /\ initCopies = 0 /\ copyWritten = {})
    /\ pc \in {"watch_build", "watch_copy", "exited"}
    /\ pc = "exited" => (exitCode = 1 /\ reported = 1)
    /\ pc # "exited" =>
         /\ ENABLED WatchBuildReject
         /\ ~ENABLED WatchInitialCopy
         /\ ~ENABLED WatchSubscribe

C19_Witness ==
  /\ WatchStarted
  /\ buildOp = "failed"
  /\ copyOp = "idle"
  /\ pc = "exited"
  /\ exitCode = 1
  /\ reported = 1

\* C20: over boolean sourceMap, inlineSourceMap and inlineSources, the
\* sourcemap option computed for a configuration equals the one computed for
\* the same configuration with inlineSources negated.
C20_InlineSourcesIrrelevant ==
  (/\ Resolved
   /\ IsBool(TheTsConfig.options.sourceMap)
   /\ IsBool(TheTsConfig.options.inlineSourceMap)
   /\ IsBool(TheTsConfig.options.inlineSources))
  => LET flipped == [TheTsConfig EXCEPT
                       !.options.inlineSources = Some(~Val(@))]
     IN  /\ ThePlan.esbuildOptions.sourcemap = esBuildSourceMapOptions(TheTsConfig)
         /\ esBuildSourceMapOptions(TheTsConfig) = esBuildSourceMapOptions(flipped)

C20_Witness ==
  /\ Resolved
  /\ TheTsConfig.options.inlineSources = Some(TRUE)
  /\ TheTsConfig.options.sourceMap = Some(FALSE)
  /\ TheTsConfig.options.inlineSourceMap = Some(FALSE)
  /\ ThePlan.esbuildOptions.sourcemap = "false"

====
